---- MODULE Spec2Model ----
(***************************************************************************)
(* Model of src/trader/notifiers/index.ts of node-binance-trader: the      *)
(* notifier registry with its severity-gated fan-out (notifyAll), the      *)
(* message renderer (getNotifierMessage) and the scalar formatter (format).*)
(***************************************************************************)
EXTENDS Integers, Sequences, FiniteSets, TLC

VARIABLES
    notifiers,       \* the module-level Notifier[] (index.ts:11)
    calls,           \* one record per notifyAll call made so far
    jobs,            \* the promise reaction (microtask) queue, FIFO
    logged,          \* what logger.error has recorded, in order
    rendered,        \* the event handed to getNotifierMessage, then its result
    formatted        \* the value handed to format, then its result

vars == <<notifiers, calls, jobs, logged, rendered, formatted>>

(***************************************************************************)
(* Bounds                                                                  *)
(***************************************************************************)
MaxNotifiers == 2    \* registry entries the model lets initializeNotifiers push
MaxCalls == 1        \* notifyAll calls in one behaviour

(***************************************************************************)
(* Strings                                                                 *)
(***************************************************************************)
LowerAlphabet == "abcdefghijklmnopqrstuvwxyz"
UpperAlphabet == "ABCDEFGHIJKLMNOPQRSTUVWXYZ"

CharAt(s, i) == SubSeq(s, i, i)

\* String.prototype.toUpperCase on one character
upperOf ==
    [ch \in {CharAt(LowerAlphabet, k) : k \in 1..Len(LowerAlphabet)} |->
        CharAt(UpperAlphabet,
               CHOOSE k \in 1..Len(LowerAlphabet) : CharAt(LowerAlphabet, k) = ch)]

upperChar(ch) == IF ch \in DOMAIN upperOf THEN upperOf[ch] ELSE ch

RECURSIVE toUpperCase(_)
toUpperCase(s) ==
    IF Len(s) = 0 THEN ""
    ELSE upperChar(CharAt(s, 1)) \o toUpperCase(SubSeq(s, 2, Len(s)))

\* Array.prototype.indexOf: 0-based position of the first match, -1 if none
indexOf(arr, x) ==
    IF \E i \in 1..Len(arr) : arr[i] = x
    THEN (CHOOSE i \in 1..Len(arr) :
              arr[i] = x /\ \A j \in 1..(i - 1) : arr[j] # x) - 1
    ELSE -1

(***************************************************************************)
(* Values handed to format: undefined, a number (JS number or BigNumber,   *)
(* held exactly as num/den), NaN, a Date (milliseconds since the epoch) or *)
(* a string.                                                               *)
(***************************************************************************)
Undefined == [kind |-> "undefined"]
Number(n, d) == [kind |-> "number", num |-> n, den |-> d]
NaN == [kind |-> "nan"]
DateAt(ms) == [kind |-> "date", ms |-> ms]
String(str) == [kind |-> "string", str |-> str]
NoCall == [kind |-> "none"]

defined(value) == value.kind # "undefined"

Abs(n) == IF n < 0 THEN 0 - n ELSE n

RECURSIVE Pow10(_)
Pow10(p) == IF p = 0 THEN 1 ELSE 10 * Pow10(p - 1)

Digits == "0123456789"

\* the decimal digits of a natural number
RECURSIVE decimal(_)
decimal(n) ==
    IF n < 10 THEN CharAt(Digits, n + 1)
    ELSE decimal(n \div 10) \o CharAt(Digits, (n % 10) + 1)

\* String.prototype.padStart(width, "0")
RECURSIVE padZeros(_, _)
padZeros(str, width) == IF Len(str) >= width THEN str ELSE padZeros("0" \o str, width)

\* Number.prototype.toFixed / BigNumber.prototype.toFixed of num/den: the
\* value rounded to `precision` decimals, a tie going away from zero; the
\* sign is kept whenever the value is negative.
toFixed(num, den, precision) ==
    LET scaled == (2 * Abs(num) * Pow10(precision) + den) \div (2 * den)
        whole == decimal(scaled \div Pow10(precision))
        fraction == padZeros(decimal(scaled % Pow10(precision)), precision)
    IN  (IF num < 0 THEN "-" ELSE "")
            \o whole
            \o (IF precision > 0 THEN "." \o fraction ELSE "")

\* does str[from..] consist of one or more "0"
zerosToEnd(str, from) ==
    /\ from <= Len(str)
    /\ \A k \in from..Len(str) : CharAt(str, k) = "0"

\* does /\.?0+$/ match at position i
matchesAt(str, i) ==
    \/ zerosToEnd(str, i)
    \/ CharAt(str, i) = "." /\ zerosToEnd(str, i + 1)

\* str.replace(/\.?0+$/, ""): the leftmost match is removed.
\* Faulty variant: nothing is removed.
stripZerosMutant(str) == str

stripZeros(str) ==
    IF \E i \in 1..Len(str) : matchesAt(str, i)
    THEN LET i == CHOOSE i \in 1..Len(str) :
                      matchesAt(str, i) /\ \A j \in 1..(i - 1) : ~matchesAt(str, j)
         IN  SubSeq(str, 1, i - 1)
    ELSE str

\* Date.prototype.toISOString, for instants of 1970-01-01
toISOString(ms) ==
    "1970-01-01T"
        \o padZeros(decimal(ms \div 3600000), 2) \o ":"
        \o padZeros(decimal((ms \div 60000) % 60), 2) \o ":"
        \o padZeros(decimal((ms \div 1000) % 60), 2) \o "."
        \o padZeros(decimal(ms % 1000), 3) \o "Z"

\* format (index.ts:166-178)
format(value, precision) ==
    CASE value.kind = "undefined" -> ""
      [] value.kind = "number" -> stripZeros(toFixed(value.num, value.den, precision))
      [] value.kind = "nan" -> stripZeros("NaN")
      [] value.kind = "date" -> toISOString(value.ms)
      [] value.kind = "string" -> value.str

(***************************************************************************)
(* Severity (types/notifier MessageType): a string enum whose member names *)
(* equal their values, listed in ascending order.                          *)
(***************************************************************************)
MessageType == <<"DEBUG", "INFO", "SUCCESS", "WARN", "ERROR">>

valLevels == MessageType     \* Object.values(MessageType)
keyLevels == MessageType     \* Object.keys(MessageType)

\* the gate of notifyAll (index.ts:24-26): TRUE when the message is too low
\* to send.  Faulty variant: the level is looked up without toUpperCase.
tooLowMutant(messageType, level) ==
    indexOf(valLevels, messageType) < indexOf(keyLevels, level)

tooLow(messageType, level) ==
    indexOf(valLevels, messageType) < indexOf(keyLevels, toUpperCase(level))

(***************************************************************************)
(* Inputs                                                                  *)
(***************************************************************************)
Levels == {"Warn", "verbose"}
MessageTypes == {"INFO", "WARN"}
\* the error a failing channel rejects with: its own, distinct from any other's
ErrorOf(c, i) == <<c, i>>

NoReason == << >>
Pending == [state |-> "pending", reason |-> NoReason]
Fulfilled == [state |-> "fulfilled", reason |-> NoReason]
Rejected(e) == [state |-> "rejected", reason |-> e]

(***************************************************************************)
(* Scheduling.  The process is single-threaded: every action below is one  *)
(* task of the event loop (a call made by the application, or the          *)
(* completion of one transport's I/O), and the promise reaction jobs a     *)
(* task queued are run, in FIFO order, before the next task starts.        *)
(***************************************************************************)
idle == jobs = << >>

(***************************************************************************)
(* initializeNotifiers (index.ts:13-20)                                    *)
(***************************************************************************)
pushEnabled(ns, gmailEnabled, telegramEnabled) ==
    LET withGmail == IF gmailEnabled THEN Append(ns, "gmail") ELSE ns
    IN  IF telegramEnabled THEN Append(withGmail, "telegram") ELSE withGmail

initializeNotifiers(gmailEnabled, telegramEnabled) ==
    /\ Len(pushEnabled(notifiers, gmailEnabled, telegramEnabled)) <= MaxNotifiers
    /\ idle
    /\ notifiers' = pushEnabled(notifiers, gmailEnabled, telegramEnabled)
    /\ UNCHANGED <<calls, jobs, logged, rendered, formatted>>

(***************************************************************************)
(* notifyAll (index.ts:23-40)                                              *)
(***************************************************************************)
\* notifiers.map((notifier) => notifier.notify(notifierMessage)): the notify
\* calls made, in order, each with the message it was handed.
\* Faulty variant: only the first notifier is called.
fanOutMutant(ns, msg) ==
    [i \in 1..(IF Len(ns) > 1 THEN 1 ELSE Len(ns)) |-> [channel |-> ns[i], msg |-> msg]]

fanOut(ns, msg) ==
    [i \in 1..Len(ns) |-> [channel |-> ns[i], msg |-> msg]]

notifyAll(messageType, NOTIFIER_LEVEL) ==
    /\ idle
    /\ Len(calls) < MaxCalls
    /\ LET c == Len(calls) + 1
           msg == [id |-> c, messageType |-> messageType]
       IN  IF tooLow(messageType, NOTIFIER_LEVEL)
           THEN /\ calls' = Append(calls,
                        [msg |-> msg, level |-> NOTIFIER_LEVEL, registry |-> notifiers,
                         invoked |-> << >>, chan |-> << >>, first |-> NoReason,
                         remaining |-> 0, all |-> Pending, outer |-> Fulfilled])
                /\ jobs' = jobs
           ELSE LET inv == fanOut(notifiers, msg)
                IN  /\ calls' = Append(calls,
                            [msg |-> msg, level |-> NOTIFIER_LEVEL, registry |-> notifiers,
                             invoked |-> inv,
                             chan |-> [i \in 1..Len(inv) |-> Pending],
                             first |-> NoReason,
                             remaining |-> Len(inv),
                             all |-> IF Len(inv) = 0 THEN Fulfilled ELSE Pending,
                             outer |-> Pending])
                    /\ jobs' = IF Len(inv) = 0
                               THEN Append(jobs, [kind |-> "then", call |-> c])
                               ELSE jobs
    /\ UNCHANGED <<notifiers, logged, rendered, formatted>>

\* Promise.all's reaction to one element promise: the new state of the
\* aggregate promise and of its count of unfulfilled elements.
\* Faulty variant: the first fulfilment fulfils the aggregate (a race).
allElementMutant(all, remaining, element) ==
    IF all.state # "pending" THEN [all |-> all, remaining |-> remaining]
    ELSE IF element.state = "rejected"
    THEN [all |-> Rejected(element.reason), remaining |-> remaining]
    ELSE [all |-> Fulfilled, remaining |-> remaining - 1]

allElement(all, remaining, element) ==
    IF all.state # "pending" THEN [all |-> all, remaining |-> remaining]
    ELSE IF element.state = "rejected"
    THEN [all |-> Rejected(element.reason), remaining |-> remaining]
    ELSE [all |-> IF remaining = 1 THEN Fulfilled ELSE Pending,
          remaining |-> remaining - 1]

\* resolve() / reject(reason) of the promise notifyAll returned: only the
\* first settlement counts
settle(outer, outcome) == IF outer.state = "pending" THEN outcome ELSE outer

\* .catch(reason => { logger.error(reason); reject(reason) }): the log after
\* the handler ran.  Faulty variant: the handler does not log.
catchLogMutant(log, c, reason) == log

catchLog(log, c, reason) == Append(log, [call |-> c, reason |-> reason])

\* a channel's notify promise settles (the transport's own I/O finished) and
\* Promise.all's reaction to it, the one job this task queues, runs
channelSettles(c, i, ok) ==
    /\ idle
    /\ c \in 1..Len(calls)
    /\ i \in 1..Len(calls[c].chan)
    /\ calls[c].chan[i].state = "pending"
    /\ LET outcome == IF ok THEN Fulfilled ELSE Rejected(ErrorOf(c, i))
           r == allElement(calls[c].all, calls[c].remaining, outcome)
       IN  /\ calls' = [calls EXCEPT
                   ![c].chan[i] = outcome,
                   ![c].first = IF @ = NoReason /\ ~ok THEN outcome.reason ELSE @,
                   ![c].all = r.all,
                   ![c].remaining = r.remaining]
           /\ jobs' = IF calls[c].all.state = "pending" /\ r.all.state # "pending"
                      THEN Append(jobs, [kind |-> "then", call |-> c])
                      ELSE jobs
    /\ UNCHANGED <<notifiers, logged, rendered, formatted>>

\* .then(() => resolve()): runs the callback on fulfilment, passes a
\* rejection on to the .catch
runThen(job) ==
    LET c == job.call
    IN  IF calls[c].all.state = "fulfilled"
        THEN /\ calls' = [calls EXCEPT ![c].outer = settle(@, Fulfilled)]
             /\ jobs' = Tail(jobs)
             /\ UNCHANGED logged
        ELSE /\ jobs' = Append(Tail(jobs), [kind |-> "catch", call |-> c])
             /\ UNCHANGED <<calls, logged>>

runCatch(job) ==
    LET c == job.call
        reason == calls[c].all.reason
    IN  /\ logged' = catchLog(logged, c, reason)
        /\ calls' = [calls EXCEPT ![c].outer = settle(@, Rejected(reason))]
        /\ jobs' = Tail(jobs)

runJob ==
    /\ jobs # << >>
    /\ LET job == Head(jobs)
       IN  \/ job.kind = "then" /\ runThen(job)
           \/ job.kind = "catch" /\ runCatch(job)
    /\ UNCHANGED <<notifiers, rendered, formatted>>

(***************************************************************************)
(* The fan-out specification                                               *)
(***************************************************************************)
Init ==
    /\ notifiers = << >>
    /\ calls = << >>
    /\ jobs = << >>
    /\ logged = << >>
    /\ rendered = NoCall
    /\ formatted = NoCall

Next ==
    \/ \E g \in BOOLEAN, t \in BOOLEAN : initializeNotifiers(g, t)
    \/ \E messageType \in MessageTypes, level \in Levels : notifyAll(messageType, level)
    \/ \E c \in 1..MaxCalls, i \in 1..MaxNotifiers :
           \E ok \in BOOLEAN : channelSettles(c, i, ok)
    \/ runJob

Spec == Init /\ [][Next]_vars

(***************************************************************************)
(* getNotifierMessage (index.ts:42-164)                                    *)
(***************************************************************************)
SUCCESS == "SUCCESS"
INFO == "INFO"
SHORT == "SHORT"
LONG == "LONG"
SourceType_SIGNAL == "signal"

Whitespace == {" ", "\n", "\t"}

\* String.prototype.trim
RECURSIVE trimStart(_)
trimStart(str) ==
    IF Len(str) > 0 /\ CharAt(str, 1) \in Whitespace
    THEN trimStart(SubSeq(str, 2, Len(str))) ELSE str

RECURSIVE trimEnd(_)
trimEnd(str) ==
    IF Len(str) > 0 /\ CharAt(str, Len(str)) \in Whitespace
    THEN trimEnd(SubSeq(str, 1, Len(str) - 1)) ELSE str

trim(str) == trimEnd(trimStart(str))

\* Array.prototype.join
RECURSIVE join(_, _)
join(arr, sep) ==
    IF Len(arr) = 0 THEN ""
    ELSE IF Len(arr) = 1 THEN arr[1]
    ELSE arr[1] \o sep \o join(Tail(arr), sep)

\* arr.push(item) when cond holds
pushIf(cond, arr, item) == IF cond THEN Append(arr, item) ELSE arr

\* truthiness of an optional string
truthy(str) == defined(str) /\ str.str # ""

\* calculatePnL of ../trader: the percentage gained from buy to sell
calculatePnL(priceBuy, priceSell) ==
    Number((priceSell.num * priceBuy.den - priceBuy.num * priceSell.den) * 100 * priceBuy.den,
           priceSell.den * priceBuy.den * priceBuy.num)

\* the JS arithmetic of the LUCRO line: undefined operands give NaN
times(a, b) ==
    IF a.kind = "number" /\ b.kind = "number"
    THEN Number(a.num * b.num, a.den * b.den) ELSE NaN

minus(a, b) ==
    IF a.kind = "number" /\ b.kind = "number"
    THEN Number(a.num * b.den - b.num * a.den, a.den * b.den) ELSE NaN

\* index.ts:49.  Faulty variant: the signal takes precedence over the trade.
typeOfMutant(signal, tradeOpen) ==
    IF defined(signal) THEN "signal" ELSE IF defined(tradeOpen) THEN "trade" ELSE "Notification"

typeOf(signal, tradeOpen) ==
    IF defined(tradeOpen) THEN "trade" ELSE IF defined(signal) THEN "signal" ELSE "Notification"

\* index.ts:50-54
actionOf(signal, tradeOpen) ==
    LET type == typeOf(signal, tradeOpen)
    IN  IF defined(signal)
        THEN signal.entryType \o " " \o signal.symbol \o " " \o signal.positionType
                 \o " " \o type \o "."
        ELSE IF defined(tradeOpen)
        THEN tradeOpen.symbol \o " " \o tradeOpen.positionType \o " " \o type \o "."
        ELSE type \o "."

\* dur <= 60 for dur = n.num / n.den
atMost60(n) == n.num <= 60 * n.den

\* dur /= k
dividedBy(n, k) == Number(n.num, n.den * k)

\* index.ts:89-102: the duration fragment of the short body, from the two
\* instants in milliseconds.  Faulty variant: no sign flip for SHORT.
durationMutant(timeBuy, timeSell, positionType) ==
    LET secs == dividedBy(Number(timeSell - timeBuy, 1), 1000)
        mins == dividedBy(secs, 60)
        hrs == dividedBy(mins, 60)
    IN  IF atMost60(secs) THEN format(secs, 1) \o " sec"
        ELSE IF atMost60(mins) THEN format(mins, 1) \o " min"
        ELSE format(hrs, 1) \o " hr"

duration(timeBuy, timeSell, positionType) ==
    LET diff == timeSell - timeBuy
        dur == IF positionType = SHORT THEN 0 - diff ELSE diff
        secs == dividedBy(Number(dur, 1), 1000)
        mins == dividedBy(secs, 60)
        hrs == dividedBy(mins, 60)
    IN  IF atMost60(secs) THEN format(secs, 1) \o " sec"
        ELSE IF atMost60(mins) THEN format(mins, 1) \o " min"
        ELSE format(hrs, 1) \o " hr"

\* index.ts:129: content.push("score: ") + signal.score === "NA" ? ... : ...
\* pushes "score: " alone; the sum and the conditional are computed and dropped
scoreLine(signal) == "score: "

\* index.ts:65-118
shortContent(messageType, source, signal, tradeOpen, reason, precision) ==
    LET c0 == pushIf(truthy(reason), << >>,
                  IF truthy(reason) /\ CharAt(reason.str, Len(reason.str)) = "."
                  THEN SubSeq(reason.str, 1, Len(reason.str) - 1)
                  ELSE IF truthy(reason) THEN reason.str ELSE "")
        hasPnL == /\ defined(tradeOpen)
                  /\ messageType = SUCCESS
                  /\ defined(tradeOpen.priceBuy) /\ defined(tradeOpen.priceSell)
        percent == IF hasPnL THEN calculatePnL(tradeOpen.priceBuy, tradeOpen.priceSell)
                   ELSE NaN
        c1 == pushIf(hasPnL, c0, format(percent, 3) \o "%")
        headline == IF hasPnL THEN (IF percent.num < 0 THEN "LOSS!" ELSE "PROFIT!")
                    ELSE messageType
        hasCost == defined(tradeOpen) /\ defined(tradeOpen.cost)
        c2 == pushIf(hasCost, c1, IF hasCost THEN format(tradeOpen.cost, precision) ELSE "")
        hasDuration == /\ defined(tradeOpen)
                       /\ messageType = SUCCESS
                       /\ defined(tradeOpen.timeBuy) /\ defined(tradeOpen.timeSell)
        c3 == pushIf(hasDuration, c2,
                  IF hasDuration
                  THEN duration(tradeOpen.timeBuy.ms, tradeOpen.timeSell.ms,
                                tradeOpen.positionType)
                  ELSE "")
        hasSource == truthy(source) /\ source.str # SourceType_SIGNAL
        c4 == pushIf(hasSource, c3, IF hasSource THEN source.str ELSE "")
        content == pushIf(Len(c4) > 0, c4, "")
        raw == trim(headline \o " " \o join(content, ". ") \o actionOf(signal, tradeOpen))
    IN  [content |-> content,
         contentRaw |-> IF defined(tradeOpen) THEN raw \o " " \o tradeOpen.strategyName \o "."
                        ELSE IF defined(signal) THEN raw \o " " \o signal.strategyName \o "."
                        ELSE raw]

\* index.ts:119-156
verboseContent(base, source, signal, tradeOpen, reason, precision) ==
    LET c0 == <<"">>
        c1 == pushIf(truthy(source), c0, "source: " \o (IF truthy(source) THEN source.str ELSE ""))
        c2 == IF defined(signal)
              THEN c1 \o <<"strategy: " \o signal.strategyName,
                           "signal price: " \o format(signal.price, precision),
                           scoreLine(signal),
                           "signal received: " \o format(signal.timestamp, precision)>>
              ELSE IF defined(tradeOpen)
              THEN c1 \o <<"strategy: " \o tradeOpen.strategyName>>
              ELSE c1
        c3 == IF defined(tradeOpen)
              THEN c2 \o <<"quantity: " \o format(tradeOpen.quantity, precision),
                           "cost: " \o format(tradeOpen.cost, precision),
                           "borrow: " \o format(tradeOpen.borrow, precision),
                           "wallet: " \o format(tradeOpen.wallet, precision),
                           "type: " \o format(tradeOpen.tradingType, precision),
                           "trade buy price: " \o format(tradeOpen.priceBuy, precision),
                           "buy executed: " \o format(tradeOpen.timeBuy, precision),
                           "trade sell price: " \o format(tradeOpen.priceSell, precision),
                           "sell executed: " \o format(tradeOpen.timeSell, precision),
                           "LUCRO: " \o format(
                               minus(times(tradeOpen.quantity, tradeOpen.priceSell),
                                     times(tradeOpen.quantity, tradeOpen.priceBuy)),
                               precision)>>
              ELSE c2
        content == IF truthy(reason) THEN c3 \o <<"", reason.str>> ELSE c3
    IN  [content |-> content, contentRaw |-> base \o " " \o join(content, "\n")]

getNotifierMessage(messageType, source, signal, tradeOpen, reason, IS_NOTIFIER_SHORT, MAX_WEB_PRECISION) ==
    LET action == actionOf(signal, tradeOpen)
        base == trim(messageType \o " " \o action)
        colour == IF messageType = SUCCESS THEN "#008000" ELSE "#ff0000"
        baseHtml == IF messageType = INFO
                    THEN "<b>" \o action \o "</b>"
                    ELSE "<font color=" \o colour \o "><b>" \o messageType
                             \o "</b></font> " \o action \o " "
        body == IF IS_NOTIFIER_SHORT
                THEN shortContent(messageType, source, signal, tradeOpen, reason,
                                  MAX_WEB_PRECISION)
                ELSE verboseContent(base, source, signal, tradeOpen, reason,
                                    MAX_WEB_PRECISION)
    IN  [messageType |-> messageType,
         subject |-> base,
         content |-> body.contentRaw,
         contentHtml |-> baseHtml \o join(body.content, "<br/>")]

(***************************************************************************)
(* The renderer specification: getNotifierMessage applied to events drawn  *)
(* from small sets, under either body mode.                                *)
(***************************************************************************)
EntryTypes == {"ENTER", "EXIT"}
PositionTypes == {LONG, SHORT}
Scores == {"NA", "0.85"}

Signals ==
    {[kind |-> "signal", entryType |-> e, symbol |-> "ETHBTC", positionType |-> LONG,
      strategyName |-> "Alpha", price |-> Number(1205, 100), score |-> sc,
      timestamp |-> DateAt(1500)] : e \in EntryTypes, sc \in Scores}

Trade(positionType, priceBuy, priceSell, timeBuy, timeSell, cost) ==
    [kind |-> "trade", symbol |-> "BTCUSDT", positionType |-> positionType,
     strategyName |-> "Beta", quantity |-> Number(3, 2), cost |-> cost,
     borrow |-> Number(0, 1), wallet |-> String("margin"), tradingType |-> String("real"),
     priceBuy |-> priceBuy, priceSell |-> priceSell,
     timeBuy |-> timeBuy, timeSell |-> timeSell]

\* buy and sell instants (ms): none, 45 s, 60 s, 90 s, 60 min and 90 min
\* apart, and sold before bought
TimePairs ==
    {<<Undefined, Undefined>>, <<DateAt(0), Undefined>>,
     <<DateAt(0), DateAt(45000)>>, <<DateAt(0), DateAt(60000)>>,
     <<DateAt(0), DateAt(90000)>>, <<DateAt(0), DateAt(3600000)>>,
     <<DateAt(0), DateAt(5400000)>>, <<DateAt(5400000), DateAt(0)>>,
     <<DateAt(90000), DateAt(45000)>>}

Trades ==
    {Trade(p, Number(100, 1), Number(110, 1), tp[1], tp[2], Number(51, 2)) :
         p \in PositionTypes, tp \in TimePairs}
    \cup {Trade(p, pb, ps, DateAt(0), DateAt(45000), Undefined) :
              p \in PositionTypes,
              pb \in {Undefined, Number(100, 1)},
              ps \in {Undefined, Number(90, 1), Number(110, 1)}}

Sources == {Undefined, String(SourceType_SIGNAL), String("manual")}
Reasons == {Undefined, String("Stopped.")}
RenderedTypes == {INFO, SUCCESS, "ERROR"}
WebPrecisions == {2, 4}

\* the event handed to the renderer, and the configuration it will read
InitRender ==
    /\ notifiers = << >>
    /\ calls = << >>
    /\ jobs = << >>
    /\ logged = << >>
    /\ formatted = NoCall
    /\ \E messageType \in RenderedTypes, source \in Sources,
          signal \in Signals \cup {Undefined}, tradeOpen \in Trades \cup {Undefined},
          reason \in Reasons, short \in BOOLEAN, precision \in WebPrecisions :
           rendered = [kind |-> "event", messageType |-> messageType, source |-> source,
                       signal |-> signal, tradeOpen |-> tradeOpen, reason |-> reason,
                       IS_NOTIFIER_SHORT |-> short, MAX_WEB_PRECISION |-> precision]

render ==
    /\ rendered.kind = "event"
    /\ rendered' = [kind |-> "render", messageType |-> rendered.messageType,
                    source |-> rendered.source, signal |-> rendered.signal,
                    tradeOpen |-> rendered.tradeOpen, reason |-> rendered.reason,
                    IS_NOTIFIER_SHORT |-> rendered.IS_NOTIFIER_SHORT,
                    MAX_WEB_PRECISION |-> rendered.MAX_WEB_PRECISION,
                    message |-> getNotifierMessage(
                        rendered.messageType, rendered.source, rendered.signal,
                        rendered.tradeOpen, rendered.reason,
                        rendered.IS_NOTIFIER_SHORT, rendered.MAX_WEB_PRECISION)]
    /\ UNCHANGED <<notifiers, calls, jobs, logged, formatted>>

NextRender == render

SpecRender == InitRender /\ [][NextRender]_vars

(***************************************************************************)
(* The formatter specification: format applied to every number k/4 within  *)
(* the bound at every precision within the bound, and to the other kinds.  *)
(***************************************************************************)
MaxNumerator == 50
MaxPrecision == 6

FormatValues ==
    {Number(k, 4) : k \in (0 - MaxNumerator)..MaxNumerator}
    \cup {Undefined, NaN, DateAt(5400123), String("real")}

InitFormat ==
    /\ notifiers = << >>
    /\ calls = << >>
    /\ jobs = << >>
    /\ logged = << >>
    /\ rendered = NoCall
    /\ \E value \in FormatValues, precision \in 0..MaxPrecision :
           formatted = [kind |-> "input", value |-> value, precision |-> precision]

formatCall ==
    /\ formatted.kind = "input"
    /\ formatted' = [kind |-> "format", value |-> formatted.value,
                     precision |-> formatted.precision,
                     result |-> format(formatted.value, formatted.precision)]
    /\ UNCHANGED <<notifiers, calls, jobs, logged, rendered>>

NextFormat == formatCall

SpecFormat == InitFormat /\ [][NextFormat]_vars

(***************************************************************************)
(* Properties of the fan-out                                               *)
(***************************************************************************)
CallIds == 1..Len(calls)

Severities == {MessageType[k] : k \in 1..Len(MessageType)}
Rank(severity) == CHOOSE k \in 1..Len(MessageType) : MessageType[k] = severity

\* the Severity a configured level names (in any letter case), "" if none
MinimumOf ==
    [level \in Levels |->
        IF toUpperCase(level) \in Severities THEN toUpperCase(level) ELSE ""]

ValidLevel(level) == MinimumOf[level] # ""

BelowMinimum(c) ==
    /\ ValidLevel(calls[c].level)
    /\ Rank(calls[c].msg.messageType) < Rank(MinimumOf[calls[c].level])

AtOrAboveMinimum(c) ==
    /\ ValidLevel(calls[c].level)
    /\ Rank(calls[c].msg.messageType) >= Rank(MinimumOf[calls[c].level])

LoggedFor(c) == {k \in 1..Len(logged) : logged[k].call = c}

\* C1: a message whose severity ranks strictly below the configured minimum
\* makes notifyAll return a fulfilled promise without invoking any channel,
\* whatever the registry holds.
C1_BelowMinimumNotDelivered ==
    \A c \in CallIds :
        BelowMinimum(c) =>
            /\ calls[c].outer.state = "fulfilled"
            /\ calls[c].invoked = << >>
            /\ calls[c].chan = << >>

C1_Witness ==
    \E c \in CallIds :
        /\ BelowMinimum(c)
        /\ Len(calls[c].registry) = 2
        /\ calls[c].outer.state = "fulfilled"

\* C2: a message at or above the configured minimum has notify invoked once
\* for every entry of the registry, each time with the very message object
\* notifyAll was given.
C2_EveryChannelInvokedOnce ==
    \A c \in CallIds :
        AtOrAboveMinimum(c) =>
            /\ Len(calls[c].invoked) = Len(calls[c].registry)
            /\ \A i \in 1..Len(calls[c].registry) :
                   /\ calls[c].invoked[i].channel = calls[c].registry[i]
                   /\ calls[c].invoked[i].msg = calls[c].msg

C2_Witness ==
    \E c \in CallIds :
        /\ AtOrAboveMinimum(c)
        /\ Len(calls[c].registry) = 2
        /\ Len(calls[c].invoked) = 2

\* C3: once a channel of a gated-in call has rejected, E being the first
\* rejection, the returned promise is never fulfilled; when the reactions
\* have run it is rejected with E and logger.error has recorded E exactly
\* once for the call (and nothing else for it).
C3_FirstRejectionPropagates ==
    \A c \in CallIds :
        /\ Cardinality(LoggedFor(c)) <= 1
        /\ \A k \in LoggedFor(c) : logged[k].reason = calls[c].first /\ calls[c].first # NoReason
        /\ calls[c].first # NoReason => calls[c].outer.state # "fulfilled"
        /\ calls[c].outer.state = "rejected" =>
               /\ calls[c].first # NoReason
               /\ calls[c].outer.reason = calls[c].first
               /\ Cardinality(LoggedFor(c)) = 1
        /\ (idle /\ calls[c].first # NoReason) =>
               /\ calls[c].outer = Rejected(calls[c].first)
               /\ Cardinality(LoggedFor(c)) = 1

C3_Witness ==
    \E c \in CallIds :
        /\ \E i \in 1..Len(calls[c].chan) : calls[c].chan[i].state = "fulfilled"
        /\ \E i \in 1..Len(calls[c].chan) : calls[c].chan[i] = Rejected(calls[c].first)
        /\ calls[c].outer = Rejected(calls[c].first)
        /\ Cardinality(LoggedFor(c)) = 1

\* C4: as soon as a gated-in notifyAll has returned, notify has been started
\* on every entry of the registry, so a channel that never settles keeps no
\* other from being invoked and settling; and the returned promise is
\* fulfilled only when every channel's promise is.
C4_AllStartedThenJointlyAwaited ==
    \A c \in CallIds :
        ~BelowMinimum(c) =>
            /\ Len(calls[c].chan) = Len(calls[c].registry)
            /\ calls[c].outer.state = "fulfilled" =>
                   \A i \in 1..Len(calls[c].registry) : calls[c].chan[i].state = "fulfilled"

C4_Witness ==
    \E c \in CallIds :
        /\ idle
        /\ Len(calls[c].chan) = 2
        /\ calls[c].chan[1].state = "pending"
        /\ calls[c].chan[2].state = "fulfilled"
        /\ calls[c].outer.state = "pending"

\* C5: when the configured minimum level names no Severity, notifyAll fails
\* with a configuration error and delivers nothing.
C5_InvalidLevelFails ==
    \A c \in CallIds :
        ~ValidLevel(calls[c].level) =>
            /\ calls[c].invoked = << >>
            /\ calls[c].outer.state = "rejected"

\* C9: the registry holds each enabled channel at most once, so one
\* notifyAll delivers a message to a given channel at most once.
C9_RegistryHoldsChannelOnce ==
    /\ \A i, j \in 1..Len(notifiers) : notifiers[i] = notifiers[j] => i = j
    /\ \A c \in CallIds : \A i, j \in 1..Len(calls[c].invoked) :
           calls[c].invoked[i].channel = calls[c].invoked[j].channel => i = j

(***************************************************************************)
(* Properties of the renderer                                              *)
(***************************************************************************)
\* sub occurs in str
Contains(str, sub) ==
    \E i \in 1..(Len(str) - Len(sub) + 1) : SubSeq(str, i, i + Len(sub) - 1) = sub

Rendered == rendered.kind = "render"

\* C6 as claimed: the subject is the severity followed by "{entryVerb}
\* {symbol} {positionType} trade." whenever a trade is present (with or
\* without a signal), else by the signal's "{entryType} {symbol}
\* {positionType} signal.", else by "Notification.".
C6_SubjectByPrecedence ==
    Rendered =>
        LET signal == rendered.signal
            tradeOpen == rendered.tradeOpen
            severity == rendered.messageType
            subject == rendered.message.subject
        IN  IF defined(tradeOpen)
            THEN \E verb \in EntryTypes, symbol \in {"ETHBTC", "BTCUSDT"},
                    positionType \in PositionTypes :
                     subject = severity \o " " \o verb \o " " \o symbol \o " "
                                   \o positionType \o " trade."
            ELSE IF defined(signal)
            THEN subject = severity \o " " \o signal.entryType \o " " \o signal.symbol
                               \o " " \o signal.positionType \o " signal."
            ELSE subject = severity \o " Notification."

\* C6 as amended: the subject is the severity followed by the action; the
\* action's noun is "trade" if a trade is present, else "signal" if a signal
\* is, else "Notification"; the words before the noun are the signal's entry
\* type, symbol and position type when a signal is present, and only the
\* trade's symbol and position type (no entry verb) for a trade without a
\* signal.
C6_SubjectAmended ==
    Rendered =>
        LET signal == rendered.signal
            tradeOpen == rendered.tradeOpen
            severity == rendered.messageType
            subject == rendered.message.subject
        IN  CASE defined(tradeOpen) /\ defined(signal) ->
                     subject = severity \o " " \o signal.entryType \o " " \o signal.symbol
                                   \o " " \o signal.positionType \o " trade."
              [] defined(tradeOpen) /\ ~defined(signal) ->
                     subject = severity \o " " \o tradeOpen.symbol \o " "
                                   \o tradeOpen.positionType \o " trade."
              [] ~defined(tradeOpen) /\ defined(signal) ->
                     subject = severity \o " " \o signal.entryType \o " " \o signal.symbol
                                   \o " " \o signal.positionType \o " signal."
              [] OTHER -> subject = severity \o " Notification."

C6_Witness ==
    /\ Rendered
    /\ defined(rendered.tradeOpen)
    /\ ~defined(rendered.signal)
    /\ rendered.message.subject = "ERROR BTCUSDT SHORT trade."

\* C7: in verbose mode, an event with a signal has a score line in its body
\* whose value is "N/A" for the score "NA" and the score itself otherwise.
C7_VerboseScoreLine ==
    (Rendered /\ ~rendered.IS_NOTIFIER_SHORT /\ defined(rendered.signal)) =>
        Contains(rendered.message.content,
                 "\nscore: "
                     \o (IF rendered.signal.score = "NA" THEN "N/A"
                         ELSE rendered.signal.score)
                     \o "\n")

\* the duration of a trade in the unit the claim names: the smallest of sec,
\* min, hr in which it is at most 60 (hr if none), to one decimal (tenths)
DurationMs(tradeOpen) ==
    IF tradeOpen.positionType = SHORT
    THEN tradeOpen.timeBuy.ms - tradeOpen.timeSell.ms
    ELSE tradeOpen.timeSell.ms - tradeOpen.timeBuy.ms

DurationUnit(ms) ==
    IF ms <= 60000 THEN [name |-> " sec", ms |-> 1000]
    ELSE IF ms <= 3600000 THEN [name |-> " min", ms |-> 60000]
    ELSE [name |-> " hr", ms |-> 3600000]

DurationTenths(ms) == (2 * 10 * Abs(ms) + DurationUnit(ms).ms) \div (2 * DurationUnit(ms).ms)

HasBothTimes(tradeOpen) ==
    defined(tradeOpen) /\ defined(tradeOpen.timeBuy) /\ defined(tradeOpen.timeSell)

\* C8 as claimed: in short mode every trade with both times has the duration
\* fragment, written with one decimal ("45.0 sec", "1.5 hr").
C8_ShortDuration ==
    (Rendered /\ rendered.IS_NOTIFIER_SHORT /\ HasBothTimes(rendered.tradeOpen)) =>
        LET ms == DurationMs(rendered.tradeOpen)
            tenths == DurationTenths(ms)
        IN  Contains(rendered.message.content,
                     " " \o (IF ms < 0 THEN "-" ELSE "")
                         \o decimal(tenths \div 10) \o "." \o decimal(tenths % 10)
                         \o DurationUnit(ms).name \o ". ")

\* C8 as amended: in short mode a SUCCESS trade with both times has the
\* duration fragment, the one-decimal value with a trailing ".0" removed
\* ("45 sec", "1.5 hr"); a trade of any other severity has no duration
\* fragment.
C8_ShortDurationAmended ==
    (Rendered /\ rendered.IS_NOTIFIER_SHORT /\ HasBothTimes(rendered.tradeOpen)) =>
        LET ms == DurationMs(rendered.tradeOpen)
            tenths == DurationTenths(ms)
            content == rendered.message.content
        IN  IF rendered.messageType = SUCCESS
            THEN Contains(content,
                          " " \o (IF ms < 0 THEN "-" ELSE "")
                              \o decimal(tenths \div 10)
                              \o (IF tenths % 10 = 0 THEN "" ELSE "." \o decimal(tenths % 10))
                              \o DurationUnit(ms).name \o ". ")
            ELSE \A unit \in {" sec. ", " min. ", " hr. "} : ~Contains(content, unit)

C8_Witness ==
    /\ Rendered
    /\ rendered.IS_NOTIFIER_SHORT
    /\ rendered.messageType = SUCCESS
    /\ HasBothTimes(rendered.tradeOpen)
    /\ rendered.tradeOpen.positionType = SHORT
    /\ rendered.tradeOpen.timeBuy.ms - rendered.tradeOpen.timeSell.ms = 5400000
    /\ Contains(rendered.message.content, " 1.5 hr. ")

(***************************************************************************)
(* Properties of the formatter                                             *)
(***************************************************************************)
\* the position of the decimal point of str, Len(str) + 1 if it has none
PointOf(str) ==
    IF \E k \in 1..Len(str) : CharAt(str, k) = "."
    THEN CHOOSE k \in 1..Len(str) : CharAt(str, k) = "."
    ELSE Len(str) + 1

\* C10: for a number, format returns the fixed-precision rendering less
\* zeros after the decimal point and a decimal point left bare: the digits
\* before the point are all kept and the result is never empty.
C10_FormatKeepsValue ==
    (formatted.kind = "format" /\ formatted.value.kind = "number") =>
        LET fixed == toFixed(formatted.value.num, formatted.value.den, formatted.precision)
            result == formatted.result
        IN  /\ result # ""
            /\ Len(result) >= PointOf(fixed) - 1
            /\ result = SubSeq(fixed, 1, Len(result))
            /\ \A k \in (Len(result) + 1)..Len(fixed) : CharAt(fixed, k) \in {"0", "."}
            /\ Len(result) >= PointOf(fixed) => CharAt(result, Len(result)) # "0"

====
